---- MODULE Spec2Model ----
(***************************************************************************)
(* nb-clean: the notebook normaliser of src/src/nb_clean/__init__.py.      *)
(*                                                                         *)
(* A notebook is a Python mapping; mappings are modelled as TLA+ functions *)
(* whose DOMAIN is the set of keys present.  An optional value (Python     *)
(* None against a present value v) is modelled as the sequence << >>       *)
(* against << v >>, so that both have one type.                            *)
(***************************************************************************)
EXTENDS Integers, Sequences, FiniteSets, TLC

\* ------------------------------------------------------------------ bounds
\* The longest cell sequence of a notebook.
MaxCells == 2
\* The longest outputs list of a code cell.
MaxOutputs == 1

\* ------------------------------------------------------------ Python values
None == << >>
Some(v) == << v >>

\* Mutant of Truthy: the test written `is not None`.
Truthy_is_not_none(x) == x # None

\* bool(x) of an optional integer: None and 0 are falsy.
Truthy(x) == x # None /\ x[1] # 0

\* The keys a mapping holds, in the one order the model iterates them in.
KeyOrder == << "tags", "special" >>
Keys(d) == SelectSeq(KeyOrder, LAMBDA k : k \in DOMAIN d)

\* The mapping d without key k.
DictWithout(d, k) == [x \in DOMAIN d \ {k} |-> d[x]]

\* ------------------------------------------------------- bounded documents
EmptyDict == [x \in {} |-> "v"]

\* Cell metadata: every sub-mapping of one mapping with two fields.
FullCellMetadata == [tags |-> "a", special |-> "b"]
CellMetadatas ==
    { [k \in S |-> FullCellMetadata[k]] : S \in SUBSET DOMAIN FullCellMetadata }

Sources == { "", "x = 1" }
ExecutionCounts == { None, Some(0), Some(3) }

\* An output of a code cell: a stream output has no execution_count key, an
\* execute_result has one (null or a number).
Outputs ==
    { [output_type |-> "stream", text |-> "1"] }
    \cup { [output_type |-> "execute_result", data |-> "1", execution_count |-> n]
           : n \in ExecutionCounts }

RECURSIVE SeqsUpTo(_, _)
SeqsUpTo(S, n) ==
    IF n = 0 THEN { << >> }
    ELSE LET shorter == SeqsUpTo(S, n - 1)
         IN  shorter \cup { Append(s, x) : s \in { t \in shorter : Len(t) = n - 1 }, x \in S }

MarkdownCells ==
    { [cell_type |-> "markdown", source |-> s, metadata |-> m]
      : s \in Sources, m \in CellMetadatas }

CodeCells ==
    { [cell_type |-> "code", source |-> s, metadata |-> m,
       execution_count |-> n, outputs |-> o]
      : s \in Sources, m \in CellMetadatas, n \in ExecutionCounts,
        o \in SeqsUpTo(Outputs, MaxOutputs) }

Cells == MarkdownCells \cup CodeCells

\* The cells of the longer notebooks: a cell as clean_notebook leaves it under
\* the default options, or one with every removable part present.
ExecutedOutput ==
    [output_type |-> "execute_result", data |-> "1", execution_count |-> Some(3)]
SampleCells ==
    { c \in Cells :
        \/ /\ c.metadata = EmptyDict
           /\ c.cell_type = "code" => c.execution_count = None /\ c.outputs = << >>
        \/ /\ c.metadata = FullCellMetadata
           /\ c.cell_type = "code" =>
                c.execution_count = Some(3) /\ c.outputs = << ExecutedOutput >> }

NotebookMetadatas ==
    { EmptyDict,
      [kernelspec |-> [name |-> "python3"]],
      [language_info |-> [name |-> "python"]],
      [language_info |-> [version |-> "3.9"]],
      [kernelspec |-> [name |-> "python3"],
       language_info |-> [name |-> "python", version |-> "3.9"]] }

\* Every notebook of at most one cell, and every notebook of at most MaxCells
\* sample cells.
CellSequences ==
    { << >> } \cup { << c >> : c \in Cells } \cup SeqsUpTo(SampleCells, MaxCells)

Notebooks ==
    { [cells |-> cs, metadata |-> md] : cs \in CellSequences, md \in NotebookMetadatas }

PreserveCellMetadatas ==
    { None, Some(<< >>), Some(<< "tags" >>), Some(<< "tags", "special" >>) }

Configurations ==
    [ remove_empty_cells : BOOLEAN,
      remove_all_notebook_metadata : BOOLEAN,
      preserve_cell_metadata : PreserveCellMetadatas,
      preserve_cell_outputs : BOOLEAN,
      preserve_execution_counts : BOOLEAN,
      preserve_notebook_metadata : BOOLEAN ]

\* The keyword defaults of check_notebook and clean_notebook.
DefaultConfiguration ==
    [ remove_empty_cells |-> FALSE,
      remove_all_notebook_metadata |-> FALSE,
      preserve_cell_metadata |-> None,
      preserve_cell_outputs |-> FALSE,
      preserve_execution_counts |-> FALSE,
      preserve_notebook_metadata |-> FALSE ]

\* Mutant of invalid_configuration: the guard written with `or`.
invalid_configuration_either(c) ==
    c.preserve_notebook_metadata \/ c.remove_all_notebook_metadata

\* The configuration check_notebook and clean_notebook refuse.
invalid_configuration(c) ==
    c.preserve_notebook_metadata /\ c.remove_all_notebook_metadata

\* ------------------------------------------------------------ check_notebook
\* A printed line: the cell index it is about (None for a line about the
\* whole notebook) and the words after the prefix.
Line(index, text) == [cell |-> index, text |-> text]

\* Mutant of report: the line is printed and is_clean is left alone.
report_without_flag(st, line) == [st EXCEPT !.out = Append(st.out, line)]

\* print(...) followed by is_clean = False.
report(st, line) == [is_clean |-> FALSE, out |-> Append(st.out, line)]

\* for field in cell["metadata"]: if field not in preserve_cell_metadata: ...
RECURSIVE check_metadata_fields(_, _, _, _)
check_metadata_fields(st, index, fields, preserved) ==
    IF fields = << >> THEN st
    ELSE LET field == Head(fields)
             st1 == IF \A i \in 1..Len(preserved) : preserved[i] # field
                    THEN report(st, Line(Some(index), << "metadata", field >>))
                    ELSE st
         IN  check_metadata_fields(st1, index, Tail(fields), preserved)

\* Mutant of check_cell_metadata: the empty collection treated like None.
check_cell_metadata_falsy(st, index, cell, c) ==
    IF c.preserve_cell_metadata = None \/ Len(c.preserve_cell_metadata[1]) = 0
    THEN IF DOMAIN cell.metadata # {}
         THEN report(st, Line(Some(index), << "metadata" >>))
         ELSE st
    ELSE check_metadata_fields(st, index, Keys(cell.metadata), c.preserve_cell_metadata[1])

check_cell_metadata(st, index, cell, c) ==
    IF c.preserve_cell_metadata = None
    THEN IF DOMAIN cell.metadata # {}
         THEN report(st, Line(Some(index), << "metadata" >>))
         ELSE st
    ELSE IF Len(c.preserve_cell_metadata[1]) > 0
    THEN check_metadata_fields(st, index, Keys(cell.metadata), c.preserve_cell_metadata[1])
    ELSE st

\* Mutant of check_outputs: the test written `if output.get("execution_count")`.
RECURSIVE check_outputs_truthy(_, _, _)
check_outputs_truthy(st, index, outputs) ==
    IF outputs = << >> THEN st
    ELSE LET output == Head(outputs)
             st1 == IF "execution_count" \in DOMAIN output /\ Truthy(output.execution_count)
                    THEN report(st, Line(Some(index), << "output execution count" >>))
                    ELSE st
         IN  check_outputs_truthy(st1, index, Tail(outputs))

\* for output in cell["outputs"]: if output.get("execution_count") is not None: ...
RECURSIVE check_outputs(_, _, _)
check_outputs(st, index, outputs) ==
    IF outputs = << >> THEN st
    ELSE LET output == Head(outputs)
             st1 == IF "execution_count" \in DOMAIN output /\ output.execution_count # None
                    THEN report(st, Line(Some(index), << "output execution count" >>))
                    ELSE st
         IN  check_outputs(st1, index, Tail(outputs))

check_code_cell(st, index, cell, c) ==
    LET st1 == IF ~c.preserve_execution_counts /\ Truthy(cell.execution_count)
               THEN report(st, Line(Some(index), << "execution count" >>))
               ELSE st
    IN  IF c.preserve_cell_outputs
        THEN IF ~c.preserve_execution_counts
             THEN check_outputs(st1, index, cell.outputs)
             ELSE st1
        ELSE IF cell.outputs # << >>
        THEN report(st1, Line(Some(index), << "outputs" >>))
        ELSE st1

check_cell(st, index, cell, c) ==
    LET st1 == IF c.remove_empty_cells /\ cell.source = ""
               THEN report(st, Line(Some(index), << "empty cell" >>))
               ELSE st
        st2 == check_cell_metadata(st1, index, cell, c)
    IN  IF cell.cell_type = "code" THEN check_code_cell(st2, index, cell, c) ELSE st2

\* Mutant of check_cells: the loop written enumerate(notebook.cells, 1).
RECURSIVE check_cells_one_based(_, _, _, _)
check_cells_one_based(st, cells, index, c) ==
    IF index >= Len(cells) THEN st
    ELSE check_cells_one_based(check_cell(st, index + 1, cells[index + 1], c),
                               cells, index + 1, c)

\* for index, cell in enumerate(notebook.cells): ...
RECURSIVE check_cells(_, _, _, _)
check_cells(st, cells, index, c) ==
    IF index >= Len(cells) THEN st
    ELSE check_cells(check_cell(st, index, cells[index + 1], c), cells, index + 1, c)

\* notebook["metadata"]["language_info"]["version"] does not raise KeyError.
has_language_info_version(metadata) ==
    /\ "language_info" \in DOMAIN metadata
    /\ "version" \in DOMAIN metadata.language_info

\* What the lookup notebook["metadata"]["language_info"]["version"] raises.
language_info_version_lookup(metadata) ==
    IF has_language_info_version(metadata) THEN "none" ELSE "KeyError"

\* Mutant of suppress_KeyError: the lookup made outside any `with` block.
suppress_nothing(exc) == exc

\* with contextlib.suppress(KeyError): the exception that leaves the block.
suppress_KeyError(exc) == IF exc = "KeyError" THEN "none" ELSE exc

\* The exception that leaves check_notebook, for a valid configuration.
check_exception(nb, c) ==
    IF ~c.preserve_notebook_metadata
    THEN suppress_KeyError(language_info_version_lookup(nb.metadata))
    ELSE "none"

check_notebook_metadata(st, metadata, c) ==
    LET st1 == IF c.remove_all_notebook_metadata /\ DOMAIN metadata # {}
               THEN report(st, Line(None, << "metadata" >>))
               ELSE st
    IN  IF ~c.preserve_notebook_metadata /\ has_language_info_version(metadata)
        THEN report(st1, Line(None, << "metadata", "language_info.version" >>))
        ELSE st1

\* The value check_notebook returns and the lines it prints, for a valid
\* configuration.
check_result(nb, c) ==
    check_notebook_metadata(
        check_cells([is_clean |-> TRUE, out |-> << >>], nb.cells, 0, c),
        nb.metadata, c)

\* ------------------------------------------------------------ clean_notebook
\* Mutant of non_empty_cells: the empty cells removed from the list while it is
\* iterated, so that the cell following a removed one is skipped.
RECURSIVE remove_while_iterating(_, _)
remove_while_iterating(cells, i) ==
    IF i > Len(cells) THEN cells
    ELSE IF cells[i].source = ""
    THEN remove_while_iterating(
             [k \in 1..(Len(cells) - 1) |-> IF k < i THEN cells[k] ELSE cells[k + 1]],
             i + 1)
    ELSE remove_while_iterating(cells, i + 1)
non_empty_cells_skipping(cells) == remove_while_iterating(cells, 1)

\* Mutant of non_empty_cells: the kept cells collected in reverse.
RECURSIVE Reverse(_)
Reverse(seq) == IF seq = << >> THEN << >> ELSE Append(Reverse(Tail(seq)), Head(seq))
non_empty_cells_reversed(cells) ==
    Reverse(SelectSeq(cells, LAMBDA cell : cell.source # ""))

\* [cell for cell in notebook.cells if cell["source"]]
non_empty_cells(cells) == SelectSeq(cells, LAMBDA cell : cell.source # "")

\* Mutant of clean_cell_metadata: the filter written `not in`.
clean_cell_metadata_inverted(metadata, preserve_cell_metadata) ==
    IF preserve_cell_metadata = None
    THEN EmptyDict
    ELSE IF Len(preserve_cell_metadata[1]) > 0
    THEN LET preserved == { preserve_cell_metadata[1][i]
                            : i \in 1..Len(preserve_cell_metadata[1]) }
         IN  [field \in DOMAIN metadata \ preserved |-> metadata[field]]
    ELSE metadata

\* Mutant of clean_cell_metadata: the empty collection treated like None.
clean_cell_metadata_falsy(metadata, preserve_cell_metadata) ==
    IF preserve_cell_metadata = None \/ Len(preserve_cell_metadata[1]) = 0
    THEN EmptyDict
    ELSE LET preserved == { preserve_cell_metadata[1][i]
                            : i \in 1..Len(preserve_cell_metadata[1]) }
         IN  [field \in DOMAIN metadata \cap preserved |-> metadata[field]]

clean_cell_metadata(metadata, preserve_cell_metadata) ==
    IF preserve_cell_metadata = None
    THEN EmptyDict
    ELSE IF Len(preserve_cell_metadata[1]) > 0
    THEN LET preserved == { preserve_cell_metadata[1][i]
                            : i \in 1..Len(preserve_cell_metadata[1]) }
         IN  [field \in DOMAIN metadata \cap preserved |-> metadata[field]]
    ELSE metadata

\* Mutant of clean_output: the key assigned without the membership test.
clean_output_unguarded(output) ==
    [k \in DOMAIN output \cup { "execution_count" } |->
        IF k = "execution_count" THEN None ELSE output[k]]

\* Mutant of clean_output: the output left as it is.
clean_output_skipped(output) == output

clean_output(output) ==
    IF "execution_count" \in DOMAIN output
    THEN [output EXCEPT !.execution_count = None]
    ELSE output

\* Mutant of clean_code_cell: the cell's execution_count left as it is.
clean_code_cell_count_kept(cell, c) ==
    IF c.preserve_cell_outputs
    THEN IF ~c.preserve_execution_counts
         THEN [cell EXCEPT !.outputs =
                  [i \in 1..Len(cell.outputs) |-> clean_output(cell.outputs[i])]]
         ELSE cell
    ELSE [cell EXCEPT !.outputs = << >>]

\* Mutant of clean_cell: the outputs' execution counts reset whenever the
\* outputs are kept.
clean_cell_outputs_reset(cell, c) ==
    LET cell1 == [cell EXCEPT !.metadata =
                     clean_cell_metadata(cell.metadata, c.preserve_cell_metadata)]
    IN  IF cell1.cell_type = "code"
        THEN LET cell2 == IF ~c.preserve_execution_counts
                          THEN [cell1 EXCEPT !.execution_count = None]
                          ELSE cell1
             IN  IF c.preserve_cell_outputs
                 THEN [cell2 EXCEPT !.outputs =
                          [i \in 1..Len(cell2.outputs) |-> clean_output(cell2.outputs[i])]]
                 ELSE [cell2 EXCEPT !.outputs = << >>]
        ELSE cell1

clean_code_cell(cell, c) ==
    LET cell1 == IF ~c.preserve_execution_counts
                 THEN [cell EXCEPT !.execution_count = None]
                 ELSE cell
    IN  IF c.preserve_cell_outputs
        THEN IF ~c.preserve_execution_counts
             THEN [cell1 EXCEPT !.outputs =
                      [i \in 1..Len(cell1.outputs) |-> clean_output(cell1.outputs[i])]]
             ELSE cell1
        ELSE [cell1 EXCEPT !.outputs = << >>]

clean_cell(cell, c) ==
    LET cell1 == [cell EXCEPT !.metadata =
                     clean_cell_metadata(cell.metadata, c.preserve_cell_metadata)]
    IN  IF cell1.cell_type = "code" THEN clean_code_cell(cell1, c) ELSE cell1

clean_cells(cells, c) ==
    LET remaining == IF c.remove_empty_cells THEN non_empty_cells(cells) ELSE cells
    IN  [i \in 1..Len(remaining) |-> clean_cell(remaining[i], c)]

\* The exception that leaves clean_notebook, for a valid configuration.
clean_exception(nb, c) ==
    IF c.remove_all_notebook_metadata THEN "none"
    ELSE IF ~c.preserve_notebook_metadata
    THEN suppress_KeyError(language_info_version_lookup(nb.metadata))
    ELSE "none"

\* Mutant of clean_notebook_metadata: the del aimed one level too high.
clean_notebook_metadata_whole(metadata, c) ==
    IF c.remove_all_notebook_metadata
    THEN EmptyDict
    ELSE IF ~c.preserve_notebook_metadata /\ has_language_info_version(metadata)
    THEN DictWithout(metadata, "language_info")
    ELSE metadata

clean_notebook_metadata(metadata, c) ==
    IF c.remove_all_notebook_metadata
    THEN EmptyDict
    ELSE IF ~c.preserve_notebook_metadata /\ has_language_info_version(metadata)
    THEN [metadata EXCEPT !.language_info = DictWithout(metadata.language_info, "version")]
    ELSE metadata

\* The notebook clean_notebook returns, for a valid configuration.
clean_result(nb, c) ==
    [cells |-> clean_cells(nb.cells, c),
     metadata |-> clean_notebook_metadata(nb.metadata, c)]

\* ------------------------------------------------------------- git filter
GIT_ATTRIBUTES_LINE == "*.ipynb filter=nb-clean"

\* The longest attributes file, in lines, that add_git_filter is followed to.
MaxLines == 7
\* The number of consecutive add_git_filter calls that is counted.
MaxAdds == 2

\* A text is the sequence of its lines, text.split("\n"): the empty text is
\* << "" >> and a text ending in a newline has "" as its last line.
OtherAttributesLine == "*.py filter=black"
LongerAttributesLine == "*.ipynb filter=nb-clean-strict"

\* GIT_ATTRIBUTES_LINE in line, for the lines above.
line_contains(line) == line \in { GIT_ATTRIBUTES_LINE, LongerAttributesLine }

\* Mutant of text_contains: the text compared with the line for equality.
text_equals(lines) == lines = << GIT_ATTRIBUTES_LINE >>

\* GIT_ATTRIBUTES_LINE in attributes_path.read_text(): the line holds no
\* newline, so it is in the text exactly when it is in one of its lines.
text_contains(lines) == \E i \in 1..Len(lines) : line_contains(lines[i])

\* file.write(f"\n{GIT_ATTRIBUTES_LINE}\n") on a file opened for appending.
append_line(lines) == lines \o << GIT_ATTRIBUTES_LINE, "" >>

\* Mutant of revised_contents: the text split and joined with no line dropped.
revised_contents_kept(lines) == lines

\* "\n".join(line for line in text.split("\n") if line != GIT_ATTRIBUTES_LINE)
revised_contents(lines) ==
    LET kept == SelectSeq(lines, LAMBDA line : line # GIT_ATTRIBUTES_LINE)
    IN  IF kept = << >> THEN << "" >> ELSE kept

\* Mutant of filter_command: the two output options appended the other way
\* round.
filter_command_swapped(c) ==
    << "nb-clean", "clean" >>
    \o (IF c.remove_empty_cells THEN << "--remove-empty-cells" >> ELSE << >>)
    \o (IF c.preserve_cell_metadata # None
        THEN << "--preserve-cell-metadata" >> \o c.preserve_cell_metadata[1]
        ELSE << >>)
    \o (IF c.preserve_execution_counts THEN << "--preserve-execution-counts" >> ELSE << >>)
    \o (IF c.preserve_cell_outputs THEN << "--preserve-cell-outputs" >> ELSE << >>)
    \o (IF c.preserve_notebook_metadata THEN << "--preserve-notebook-metadata" >> ELSE << >>)
    \o (IF c.remove_all_notebook_metadata THEN << "--remove-all-notebook-metadata" >> ELSE << >>)

\* " ".join(command), as the sequence of its words.
filter_command(c) ==
    << "nb-clean", "clean" >>
    \o (IF c.remove_empty_cells THEN << "--remove-empty-cells" >> ELSE << >>)
    \o (IF c.preserve_cell_metadata # None
        THEN << "--preserve-cell-metadata" >> \o c.preserve_cell_metadata[1]
        ELSE << >>)
    \o (IF c.preserve_cell_outputs THEN << "--preserve-cell-outputs" >> ELSE << >>)
    \o (IF c.preserve_execution_counts THEN << "--preserve-execution-counts" >> ELSE << >>)
    \o (IF c.preserve_notebook_metadata THEN << "--preserve-notebook-metadata" >> ELSE << >>)
    \o (IF c.remove_all_notebook_metadata THEN << "--remove-all-notebook-metadata" >> ELSE << >>)

\* The keyword arguments add_git_filter is called with: the defaults, each
\* option alone, options together, and the two that exclude each other.
FilterConfigurations ==
    { DefaultConfiguration,
      [DefaultConfiguration EXCEPT !.remove_empty_cells = TRUE],
      [DefaultConfiguration EXCEPT !.preserve_cell_metadata = Some(<< >>)],
      [DefaultConfiguration EXCEPT !.preserve_cell_metadata = Some(<< "tags", "special" >>)],
      [DefaultConfiguration EXCEPT !.preserve_cell_outputs = TRUE],
      [DefaultConfiguration EXCEPT !.remove_all_notebook_metadata = TRUE],
      [DefaultConfiguration EXCEPT !.preserve_cell_outputs = TRUE,
                                   !.preserve_execution_counts = TRUE,
                                   !.preserve_notebook_metadata = TRUE],
      [DefaultConfiguration EXCEPT !.remove_empty_cells = TRUE,
                                   !.preserve_cell_metadata = Some(<< "tags" >>),
                                   !.preserve_cell_outputs = TRUE,
                                   !.preserve_execution_counts = TRUE,
                                   !.remove_all_notebook_metadata = TRUE],
      [DefaultConfiguration EXCEPT !.preserve_notebook_metadata = TRUE,
                                   !.remove_all_notebook_metadata = TRUE] }

\* The attributes files a repository starts with: none, or a text in which
\* GIT_ATTRIBUTES_LINE occurs at most once.
InitialAttributes ==
    { None,
      Some(<< "" >>),
      Some(<< GIT_ATTRIBUTES_LINE >>),
      Some(<< GIT_ATTRIBUTES_LINE, "" >>),
      Some(<< OtherAttributesLine >>),
      Some(<< OtherAttributesLine, "" >>),
      Some(<< OtherAttributesLine, GIT_ATTRIBUTES_LINE, "" >>),
      Some(<< GIT_ATTRIBUTES_LINE, OtherAttributesLine, "" >>),
      Some(<< LongerAttributesLine, "" >>) }

\* --------------------------------------------------------------------- state
VARIABLES
    config,     \* the options the caller passes to every call
    notebook,   \* the notebook object the caller holds
    call,       \* the last call made on it: "none", "check" or "clean"
    before,     \* the notebook as it was when that call was made
    raised,     \* whether that call raised
    exception,  \* the exception it raised: "none", "ValueError" or "KeyError"
    is_clean,   \* what check_notebook returned
    printed,    \* the lines that call wrote to standard output
    attributes,     \* the repository's attributes file: None, or its lines
    git_config,     \* the value of filter.nb-clean.clean: None, or the command
    git_call,       \* the last call: "none", "add_git_filter", "remove_git_filter"
    git_before,     \* the attributes file as it was when that call was made
    git_exception,  \* the exception it raised: "none", "ValueError", "GitProcessError"
    git_adds,       \* the consecutive add_git_filter calls that returned, up to MaxAdds
    git_options,        \* the keyword arguments of the last add_git_filter call
    git_calls,          \* the git commands that call ran, in order
    git_config_before,  \* filter.nb-clean.clean as it was when that call was made
    git_initial,        \* the attributes file the repository started with
    git_failed,         \* whether any call so far raised
    file_system,       \* the notebook stored under each path, and on stdin
    inputs,            \* the paths given on the command line
    processed_inputs,  \* the list the command walks
    position,          \* the place of its loop in that list
    all_clean,         \* its local all_clean
    exit_code,         \* the code passed to sys.exit: None while it was not called
    cli_pc,            \* "idle", "start", "loop", "returned", "exited" or "raised"
    reads,             \* the names read, in the order read
    verdicts,          \* what check_notebook returned for each
    outputs,           \* the places the clean command writes to, one per input
    writes,            \* what it read, cleaned and wrote, in order
    original_files,    \* file_system as it was when the command started
    workers,    \* the concurrent callers: the frame of each one's call
    stdout      \* the standard output they share

core_vars == << config, notebook, call, before, raised, exception, is_clean, printed >>
git_vars == << attributes, git_config, git_call, git_before, git_exception, git_adds,
              git_options, git_calls, git_config_before, git_initial, git_failed >>
clean_vars == << outputs, writes, original_files >>
cli_vars == << file_system, inputs, processed_inputs, position, all_clean,
              exit_code, cli_pc, reads, verdicts, clean_vars >>
par_vars == << workers, stdout >>
vars == << core_vars, git_vars, cli_vars, par_vars >>

Init ==
    /\ config \in Configurations
    /\ notebook \in Notebooks
    /\ call = "none"
    /\ before = notebook
    /\ raised = FALSE
    /\ exception = "none"
    /\ is_clean = TRUE
    /\ printed = << >>
    /\ attributes = None
    /\ git_config = None
    /\ git_call = "none"
    /\ git_before = None
    /\ git_exception = "none"
    /\ git_adds = 0
    /\ git_options = None
    /\ git_calls = << >>
    /\ git_config_before = None
    /\ git_initial = None
    /\ git_failed = FALSE
    /\ file_system = << >>
    /\ inputs = << >>
    /\ processed_inputs = << >>
    /\ position = 0
    /\ all_clean = TRUE
    /\ exit_code = None
    /\ cli_pc = "idle"
    /\ reads = << >>
    /\ verdicts = << >>
    /\ outputs = << >>
    /\ writes = << >>
    /\ original_files = << >>
    /\ workers = << >>
    /\ stdout = << >>

\* Mutant of check_notebook: the scan resets what it reports as it goes.
check_notebook_cleaning ==
    /\ call' = "check"
    /\ before' = notebook
    /\ IF invalid_configuration(config)
       THEN /\ raised' = TRUE
            /\ exception' = "ValueError"
            /\ is_clean' = TRUE
            /\ printed' = << >>
            /\ notebook' = notebook
       ELSE /\ raised' = (check_exception(notebook, config) # "none")
            /\ exception' = check_exception(notebook, config)
            /\ is_clean' = check_result(notebook, config).is_clean
            /\ printed' = check_result(notebook, config).out
            /\ notebook' = clean_result(notebook, config)
    /\ UNCHANGED << config, git_vars, cli_vars, par_vars >>

check_notebook ==
    /\ call' = "check"
    /\ before' = notebook
    /\ notebook' = notebook
    /\ IF invalid_configuration(config)
       THEN /\ raised' = TRUE
            /\ exception' = "ValueError"
            /\ is_clean' = TRUE
            /\ printed' = << >>
       ELSE /\ raised' = (check_exception(notebook, config) # "none")
            /\ exception' = check_exception(notebook, config)
            /\ is_clean' = check_result(notebook, config).is_clean
            /\ printed' = check_result(notebook, config).out
    /\ UNCHANGED << config, git_vars, cli_vars, par_vars >>

\* Mutant of clean_notebook: every change made is also logged.
clean_notebook_logging ==
    /\ call' = "clean"
    /\ before' = notebook
    /\ is_clean' = TRUE
    /\ IF invalid_configuration(config)
       THEN /\ raised' = TRUE
            /\ exception' = "ValueError"
            /\ notebook' = notebook
            /\ printed' = << >>
       ELSE /\ raised' = (clean_exception(notebook, config) # "none")
            /\ exception' = clean_exception(notebook, config)
            /\ notebook' = clean_result(notebook, config)
            /\ printed' = check_result(notebook, config).out
    /\ UNCHANGED << config, git_vars, cli_vars, par_vars >>

clean_notebook ==
    /\ call' = "clean"
    /\ before' = notebook
    /\ is_clean' = TRUE
    /\ printed' = << >>
    /\ IF invalid_configuration(config)
       THEN /\ raised' = TRUE
            /\ exception' = "ValueError"
            /\ notebook' = notebook
       ELSE /\ raised' = (clean_exception(notebook, config) # "none")
            /\ exception' = clean_exception(notebook, config)
            /\ notebook' = clean_result(notebook, config)
    /\ UNCHANGED << config, git_vars, cli_vars, par_vars >>

Next ==
    \/ check_notebook
    \/ clean_notebook

Spec == Init /\ [][Next]_vars

\* ------------------------------------------------- the git filter's state
\* A repository, before any call of add_git_filter or remove_git_filter.
InitGit ==
    /\ config = DefaultConfiguration
    /\ notebook = [metadata |-> EmptyDict, cells |-> << >>]
    /\ call = "none"
    /\ before = notebook
    /\ raised = FALSE
    /\ exception = "none"
    /\ is_clean = TRUE
    /\ printed = << >>
    /\ attributes \in InitialAttributes
    /\ git_config = None
    /\ git_call = "none"
    /\ git_before = attributes
    /\ git_exception = "none"
    /\ git_adds = 0
    /\ git_options = None
    /\ git_calls = << >>
    /\ git_config_before = None
    /\ git_initial = attributes
    /\ git_failed = FALSE
    /\ file_system = << >>
    /\ inputs = << >>
    /\ processed_inputs = << >>
    /\ position = 0
    /\ all_clean = TRUE
    /\ exit_code = None
    /\ cli_pc = "idle"
    /\ reads = << >>
    /\ verdicts = << >>
    /\ outputs = << >>
    /\ writes = << >>
    /\ original_files = << >>
    /\ workers = << >>
    /\ stdout = << >>

\* A run of git(*args); value is the last argument when it is a command line.
git_invocation(args, value) == [args |-> args, value |-> value]
git_config_set(command) ==
    git_invocation(<< "config", "filter.nb-clean.clean" >>, command)
git_rev_parse == git_invocation(<< "rev-parse", "--git-dir" >>, << >>)
git_config_remove_section ==
    git_invocation(<< "config", "--remove-section", "filter.nb-clean" >>, << >>)

\* Which of the git commands of a call exits non-zero, so that git() raises
\* GitProcessError: none (0), the first or the second.
GitFailures == 0..2

\* Mutant of add_git_filter: the options checked after git config has run.
add_git_filter_late_guard(c) ==
    /\ git_call' = "add_git_filter"
    /\ git_options' = Some(c)
    /\ git_before' = attributes
    /\ git_config_before' = git_config
    /\ git_config' = Some(filter_command(c))
    /\ git_calls' = << git_config_set(filter_command(c)) >>
    /\ git_exception' = IF invalid_configuration(c) THEN "ValueError" ELSE "none"
    /\ git_adds' = 0
    /\ git_failed' = (git_failed \/ invalid_configuration(c))
    /\ UNCHANGED << attributes, git_initial >>
    /\ UNCHANGED << core_vars, cli_vars, par_vars >>

\* Mutant of add_git_filter: the attributes file written before git config
\* is run.
add_git_filter_attributes_first(c) ==
    /\ git_call' = "add_git_filter"
    /\ git_options' = Some(c)
    /\ git_before' = attributes
    /\ git_config_before' = git_config
    /\ ~invalid_configuration(c)
    /\ LET lines == IF attributes = None THEN << "" >> ELSE attributes[1]
       IN  IF attributes # None /\ text_contains(attributes[1])
           THEN attributes' = attributes
           ELSE /\ Len(lines) + 2 <= MaxLines
                /\ attributes' = Some(append_line(lines))
    /\ \E failing \in GitFailures :
          /\ git_calls' = << git_rev_parse, git_config_set(filter_command(c)) >>
          /\ git_exception' = IF failing = 0 THEN "none" ELSE "GitProcessError"
          /\ git_config' = IF failing = 0 THEN Some(filter_command(c)) ELSE git_config
          /\ git_adds' = 0
          /\ git_failed' = (git_failed \/ failing # 0)
    /\ UNCHANGED git_initial
    /\ UNCHANGED << core_vars, cli_vars, par_vars >>

\* add_git_filter(**c): the guard, git config filter.nb-clean.clean <command>,
\* git rev-parse --git-dir for the path of the attributes file, then the line
\* appended to that file unless the file has it.
add_git_filter(c) ==
    /\ git_call' = "add_git_filter"
    /\ git_options' = Some(c)
    /\ git_before' = attributes
    /\ git_config_before' = git_config
    /\ IF invalid_configuration(c)
       THEN /\ git_exception' = "ValueError"
            /\ git_calls' = << >>
            /\ git_adds' = 0
            /\ git_failed' = TRUE
            /\ UNCHANGED << attributes, git_config >>
       ELSE \E failing \in GitFailures :
            IF failing = 1
            THEN /\ git_exception' = "GitProcessError"
                 /\ git_calls' = << git_config_set(filter_command(c)) >>
                 /\ git_adds' = 0
                 /\ git_failed' = TRUE
                 /\ UNCHANGED << attributes, git_config >>
            ELSE IF failing = 2
            THEN /\ git_exception' = "GitProcessError"
                 /\ git_config' = Some(filter_command(c))
                 /\ git_calls' = << git_config_set(filter_command(c)), git_rev_parse >>
                 /\ git_adds' = 0
                 /\ git_failed' = TRUE
                 /\ UNCHANGED attributes
            ELSE /\ git_exception' = "none"
                 /\ git_config' = Some(filter_command(c))
                 /\ git_calls' = << git_config_set(filter_command(c)), git_rev_parse >>
                 /\ git_adds' = IF git_adds < MaxAdds THEN git_adds + 1 ELSE git_adds
                 /\ git_failed' = git_failed
                 /\ IF attributes # None /\ text_contains(attributes[1])
                    THEN attributes' = attributes
                    ELSE LET lines == IF attributes = None THEN << "" >> ELSE attributes[1]
                         IN  /\ Len(lines) + 2 <= MaxLines
                             /\ attributes' = Some(append_line(lines))
    /\ UNCHANGED git_initial
    /\ UNCHANGED << core_vars, cli_vars, par_vars >>

\* Mutant of remove_git_filter: only the git configuration is removed.
remove_git_filter_config_only ==
    /\ git_call' = "remove_git_filter"
    /\ git_options' = None
    /\ git_before' = attributes
    /\ git_config_before' = git_config
    /\ git_adds' = 0
    /\ git_calls' = << git_rev_parse, git_config_remove_section >>
    /\ attributes' = attributes
    /\ git_exception' = IF git_config = None THEN "GitProcessError" ELSE "none"
    /\ git_config' = None
    /\ git_failed' = (git_failed \/ git_config = None)
    /\ UNCHANGED git_initial
    /\ UNCHANGED << core_vars, cli_vars, par_vars >>

\* remove_git_filter(): git rev-parse --git-dir for the path, the attributes
\* file rewritten without the line, then git config --remove-section
\* filter.nb-clean, which exits non-zero when the section does not exist.
remove_git_filter ==
    /\ git_call' = "remove_git_filter"
    /\ git_options' = None
    /\ git_before' = attributes
    /\ git_config_before' = git_config
    /\ git_adds' = 0
    /\ \E failing \in GitFailures :
          IF failing = 1
          THEN /\ git_exception' = "GitProcessError"
               /\ git_calls' = << git_rev_parse >>
               /\ git_failed' = TRUE
               /\ UNCHANGED << attributes, git_config >>
          ELSE /\ git_calls' = << git_rev_parse, git_config_remove_section >>
               /\ attributes' = IF attributes = None THEN None
                                ELSE Some(revised_contents(attributes[1]))
               /\ IF failing = 2 \/ git_config = None
                  THEN /\ git_exception' = "GitProcessError"
                       /\ git_failed' = TRUE
                       /\ git_config' = git_config
                  ELSE /\ git_exception' = "none"
                       /\ git_failed' = git_failed
                       /\ git_config' = None
    /\ UNCHANGED git_initial
    /\ UNCHANGED << core_vars, cli_vars, par_vars >>

NextGit ==
    \/ \E c \in FilterConfigurations : add_git_filter(c)
    \/ remove_git_filter

SpecGit == InitGit /\ [][NextGit]_vars

\* ------------------------------------------------------ the check command
\* The most paths given on the command line.
MaxInputs == 2

Directory == "notebooks"
DirectoryNotebooks == { "notebooks/b.ipynb", "notebooks/c.ipynb" }
InputPaths == { "a.ipynb", Directory, "notebooks/b.ipynb" }
ReadableNames == { "a.ipynb", "stdin" } \cup DirectoryNotebooks

\* A notebook no option finds fault with, and one with an executed cell.
StoredNotebooks ==
    { [metadata |-> EmptyDict,
       cells |-> << [cell_type |-> "code", source |-> "x = 1", metadata |-> EmptyDict,
                     execution_count |-> None, outputs |-> << >>] >>],
      [metadata |-> EmptyDict,
       cells |-> << [cell_type |-> "code", source |-> "x = 1", metadata |-> EmptyDict,
                     execution_count |-> Some(3), outputs |-> << >>] >>] }

\* The options given on the command line; -M together with -n is accepted
\* by the parser.
CommandLineConfigurations ==
    { DefaultConfiguration,
      [DefaultConfiguration EXCEPT !.preserve_execution_counts = TRUE],
      [DefaultConfiguration EXCEPT !.preserve_notebook_metadata = TRUE,
                                   !.remove_all_notebook_metadata = TRUE] }

\* Mutant of expand_directories: a directory kept as it is.
expand_directories_flat(paths) == { paths[i] : i \in 1..Len(paths) }

\* expand_directories(paths): the set of the paths, each directory replaced
\* by the notebooks under it.
expand_directories(paths) ==
    UNION { IF paths[i] = Directory THEN DirectoryNotebooks ELSE { paths[i] }
            : i \in 1..Len(paths) }

\* list(expanded): the elements of a set in any order.
Orderings(S) ==
    { s \in [1..Cardinality(S) -> S] : \A i, j \in DOMAIN s : i # j => s[i] # s[j] }

InitCli ==
    /\ config \in CommandLineConfigurations
    /\ notebook = [metadata |-> EmptyDict, cells |-> << >>]
    /\ call = "none"
    /\ before = notebook
    /\ raised = FALSE
    /\ exception = "none"
    /\ is_clean = TRUE
    /\ printed = << >>
    /\ attributes = None
    /\ git_config = None
    /\ git_call = "none"
    /\ git_before = None
    /\ git_exception = "none"
    /\ git_adds = 0
    /\ git_options = None
    /\ git_calls = << >>
    /\ git_config_before = None
    /\ git_initial = None
    /\ git_failed = FALSE
    /\ file_system \in [ReadableNames -> StoredNotebooks]
    /\ inputs \in SeqsUpTo(InputPaths, MaxInputs)
    /\ processed_inputs = << >>
    /\ position = 0
    /\ all_clean = TRUE
    /\ exit_code = None
    /\ cli_pc = "start"
    /\ reads = << >>
    /\ verdicts = << >>
    /\ outputs = << >>
    /\ writes = << >>
    /\ original_files = file_system
    /\ workers = << >>
    /\ stdout = << >>

\* check(inputs, ...), up to its loop: the inputs expanded, or stdin.
cli_check_inputs ==
    /\ cli_pc = "start"
    /\ processed_inputs' \in (IF inputs # << >>
                              THEN Orderings(expand_directories(inputs))
                              ELSE { << "stdin" >> })
    /\ all_clean' = TRUE
    /\ position' = 1
    /\ cli_pc' = "loop"
    /\ UNCHANGED << core_vars, git_vars, par_vars, file_system, inputs,
                    exit_code, reads, verdicts, clean_vars >>

\* Mutant of cli_check_notebook: all_clean = is_clean in place of &=.
cli_check_notebook_last ==
    /\ cli_pc = "loop"
    /\ position <= Len(processed_inputs)
    /\ notebook' = file_system[processed_inputs[position]]
    /\ reads' = Append(reads, processed_inputs[position])
    /\ IF invalid_configuration(config)
       THEN /\ exception' = "ValueError"
            /\ cli_pc' = "raised"
            /\ UNCHANGED << is_clean, printed, verdicts, all_clean, position >>
       ELSE /\ is_clean' = check_result(notebook', config).is_clean
            /\ printed' = printed \o check_result(notebook', config).out
            /\ verdicts' = Append(verdicts, is_clean')
            /\ all_clean' = is_clean'
            /\ position' = position + 1
            /\ UNCHANGED << exception, cli_pc >>
    /\ UNCHANGED << config, call, before, raised, git_vars, par_vars,
                    file_system, inputs, processed_inputs, exit_code, clean_vars >>

\* One turn of the loop of check: the notebook read, check_notebook called
\* on it, its verdict folded into all_clean.  A ValueError of check_notebook
\* is not caught.
cli_check_notebook ==
    /\ cli_pc = "loop"
    /\ position <= Len(processed_inputs)
    /\ notebook' = file_system[processed_inputs[position]]
    /\ reads' = Append(reads, processed_inputs[position])
    /\ IF invalid_configuration(config)
       THEN /\ exception' = "ValueError"
            /\ cli_pc' = "raised"
            /\ UNCHANGED << is_clean, printed, verdicts, all_clean, position >>
       ELSE /\ is_clean' = check_result(notebook', config).is_clean
            /\ printed' = printed \o check_result(notebook', config).out
            /\ verdicts' = Append(verdicts, is_clean')
            /\ all_clean' = (all_clean /\ is_clean')
            /\ position' = position + 1
            /\ UNCHANGED << exception, cli_pc >>
    /\ UNCHANGED << config, call, before, raised, git_vars, par_vars,
                    file_system, inputs, processed_inputs, exit_code, clean_vars >>

\* After the loop: if not all_clean: sys.exit(1).
cli_check_exit ==
    /\ cli_pc = "loop"
    /\ position > Len(processed_inputs)
    /\ IF ~all_clean
       THEN exit_code' = Some(1) /\ cli_pc' = "exited"
       ELSE exit_code' = None /\ cli_pc' = "returned"
    /\ UNCHANGED << core_vars, git_vars, par_vars, file_system, inputs,
                    processed_inputs, position, all_clean, reads, verdicts, clean_vars >>

NextCli ==
    \/ cli_check_inputs
    \/ cli_check_notebook
    \/ cli_check_exit

SpecCli == InitCli /\ [][NextCli]_vars

\* ------------------------------------------------------ the clean command
InitCliClean ==
    /\ config \in CommandLineConfigurations
    /\ notebook = [metadata |-> EmptyDict, cells |-> << >>]
    /\ call = "none"
    /\ before = notebook
    /\ raised = FALSE
    /\ exception = "none"
    /\ is_clean = TRUE
    /\ printed = << >>
    /\ attributes = None
    /\ git_config = None
    /\ git_call = "none"
    /\ git_before = None
    /\ git_exception = "none"
    /\ git_adds = 0
    /\ git_options = None
    /\ git_calls = << >>
    /\ git_config_before = None
    /\ git_initial = None
    /\ git_failed = FALSE
    /\ file_system \in [ReadableNames -> StoredNotebooks]
    /\ inputs \in SeqsUpTo(InputPaths, MaxInputs)
    /\ processed_inputs = << >>
    /\ position = 0
    /\ all_clean = TRUE
    /\ exit_code = None
    /\ cli_pc = "start"
    /\ reads = << >>
    /\ verdicts = << >>
    /\ outputs = << >>
    /\ writes = << >>
    /\ original_files = file_system
    /\ workers = << >>
    /\ stdout = << >>

\* clean(inputs, ...), up to its loop: the inputs expanded and written back
\* to, or stdin and stdout.
cli_clean_inputs ==
    /\ cli_pc = "start"
    /\ processed_inputs' \in (IF inputs # << >>
                              THEN Orderings(expand_directories(inputs))
                              ELSE { << "stdin" >> })
    /\ outputs' = IF inputs # << >> THEN processed_inputs' ELSE << "stdout" >>
    /\ position' = 1
    /\ cli_pc' = "loop"
    /\ UNCHANGED << core_vars, git_vars, par_vars, file_system, inputs, all_clean,
                    exit_code, reads, verdicts, writes, original_files >>

\* Mutant of cli_clean_notebook: the cleaned notebook always written to
\* standard output.
cli_clean_notebook_stdout ==
    /\ cli_pc = "loop"
    /\ position <= Len(processed_inputs)
    /\ reads' = Append(reads, processed_inputs[position])
    /\ IF invalid_configuration(config)
       THEN /\ notebook' = file_system[processed_inputs[position]]
            /\ exception' = "ValueError"
            /\ cli_pc' = "raised"
            /\ UNCHANGED << printed, file_system, writes, position >>
       ELSE /\ notebook' = clean_result(file_system[processed_inputs[position]], config)
            /\ printed' = Append(printed, notebook')
            /\ file_system' = file_system
            /\ writes' = Append(writes, [input |-> processed_inputs[position],
                                         output |-> "stdout",
                                         read |-> file_system[processed_inputs[position]],
                                         written |-> notebook'])
            /\ position' = position + 1
            /\ UNCHANGED << exception, cli_pc >>
    /\ UNCHANGED << config, call, before, raised, is_clean, git_vars, par_vars,
                    inputs, processed_inputs, all_clean, exit_code, verdicts,
                    outputs, original_files >>

\* One turn of the loop of clean: the notebook read from the input,
\* clean_notebook called on it, the result written to the output paired with
\* the input.  A ValueError of clean_notebook is not caught.
cli_clean_notebook ==
    /\ cli_pc = "loop"
    /\ position <= Len(processed_inputs)
    /\ reads' = Append(reads, processed_inputs[position])
    /\ IF invalid_configuration(config)
       THEN /\ notebook' = file_system[processed_inputs[position]]
            /\ exception' = "ValueError"
            /\ cli_pc' = "raised"
            /\ UNCHANGED << printed, file_system, writes, position >>
       ELSE /\ notebook' = clean_result(file_system[processed_inputs[position]], config)
            /\ IF outputs[position] = "stdout"
               THEN /\ printed' = Append(printed, notebook')
                    /\ file_system' = file_system
               ELSE /\ file_system' = [file_system EXCEPT ![outputs[position]] = notebook']
                    /\ printed' = printed
            /\ writes' = Append(writes, [input |-> processed_inputs[position],
                                         output |-> outputs[position],
                                         read |-> file_system[processed_inputs[position]],
                                         written |-> notebook'])
            /\ position' = position + 1
            /\ UNCHANGED << exception, cli_pc >>
    /\ UNCHANGED << config, call, before, raised, is_clean, git_vars, par_vars,
                    inputs, processed_inputs, all_clean, exit_code, verdicts,
                    outputs, original_files >>

\* After the loop clean returns.
cli_clean_return ==
    /\ cli_pc = "loop"
    /\ position > Len(processed_inputs)
    /\ cli_pc' = "returned"
    /\ UNCHANGED << core_vars, git_vars, par_vars, file_system, inputs,
                    processed_inputs, position, all_clean, exit_code, reads,
                    verdicts, clean_vars >>

NextCliClean ==
    \/ cli_clean_inputs
    \/ cli_clean_notebook
    \/ cli_clean_return

SpecCliClean == InitCliClean /\ [][NextCliClean]_vars

\* ------------------------------------------------------ concurrent callers
Workers == { 1, 2 }
Operations == { "check", "clean" }

WorkerNotebooks ==
    { [metadata |-> EmptyDict,
       cells |-> << [cell_type |-> "markdown", source |-> "# title", metadata |-> EmptyDict] >>],
      [metadata |-> [language_info |-> [name |-> "python", version |-> "3.9"]],
       cells |-> << [cell_type |-> "code", source |-> "x = 1", metadata |-> FullCellMetadata,
                     execution_count |-> Some(3), outputs |-> << ExecutedOutput >>],
                    [cell_type |-> "markdown", source |-> "", metadata |-> EmptyDict] >>],
      [metadata |-> [kernelspec |-> [name |-> "python3"]],
       cells |-> << [cell_type |-> "code", source |-> "", metadata |-> EmptyDict,
                     execution_count |-> None, outputs |-> << >>],
                    [cell_type |-> "code", source |-> "x = 1", metadata |-> [tags |-> "a"],
                     execution_count |-> Some(3), outputs |-> << >>] >>] }

WorkerConfigurations ==
    { DefaultConfiguration,
      [DefaultConfiguration EXCEPT !.remove_empty_cells = TRUE,
                                   !.remove_all_notebook_metadata = TRUE,
                                   !.preserve_cell_outputs = TRUE],
      [DefaultConfiguration EXCEPT !.preserve_notebook_metadata = TRUE,
                                   !.remove_all_notebook_metadata = TRUE] }

\* The frame of a call that has not started: its own notebook object and
\* its own keyword arguments.
Frames ==
    { [op |-> op, config |-> c, document |-> nb, initial |-> nb,
       pc |-> "call", index |-> 0, is_clean |-> TRUE]
      : op \in Operations, c \in WorkerConfigurations, nb \in WorkerNotebooks }

InitPar ==
    /\ config = DefaultConfiguration
    /\ notebook = [metadata |-> EmptyDict, cells |-> << >>]
    /\ call = "none"
    /\ before = notebook
    /\ raised = FALSE
    /\ exception = "none"
    /\ is_clean = TRUE
    /\ printed = << >>
    /\ attributes = None
    /\ git_config = None
    /\ git_call = "none"
    /\ git_before = None
    /\ git_exception = "none"
    /\ git_adds = 0
    /\ git_options = None
    /\ git_calls = << >>
    /\ git_config_before = None
    /\ git_initial = None
    /\ git_failed = FALSE
    /\ file_system = << >>
    /\ inputs = << >>
    /\ processed_inputs = << >>
    /\ position = 0
    /\ all_clean = TRUE
    /\ exit_code = None
    /\ cli_pc = "idle"
    /\ reads = << >>
    /\ verdicts = << >>
    /\ outputs = << >>
    /\ writes = << >>
    /\ original_files = << >>
    /\ workers \in [Workers -> Frames]
    /\ stdout = << >>

\* The lines a caller prints, as they reach the shared standard output.
written(w, out) == [i \in 1..Len(out) |-> [filename |-> w, line |-> out[i]]]

\* The start of a call: the guard, and in clean_notebook the empty cells
\* dropped from the caller's own notebook.
worker_call(w) ==
    LET f == workers[w]
    IN  /\ f.pc = "call"
        /\ workers' =
             [workers EXCEPT ![w] =
                IF invalid_configuration(f.config)
                THEN [f EXCEPT !.pc = "raised"]
                ELSE IF f.op = "clean" /\ f.config.remove_empty_cells
                THEN [f EXCEPT !.pc = "cells",
                               !.document.cells = non_empty_cells(f.document.cells)]
                ELSE [f EXCEPT !.pc = "cells"]]
        /\ UNCHANGED << core_vars, git_vars, cli_vars, stdout >>

\* Mutant of worker_cell: is_clean kept in a module-level variable.
worker_cell_global_flag(w) ==
    LET f == workers[w]
        cell == f.document.cells[f.index + 1]
        st == check_cell([is_clean |-> f.is_clean, out |-> << >>], f.index, cell, f.config)
    IN  /\ f.pc = "cells"
        /\ f.index < Len(f.document.cells)
        /\ IF f.op = "clean"
           THEN /\ workers' = [workers EXCEPT ![w] =
                      [f EXCEPT !.index = f.index + 1,
                                !.document.cells[f.index + 1] = clean_cell(cell, f.config)]]
                /\ stdout' = stdout
           ELSE /\ workers' = [v \in Workers |->
                      IF v = w
                      THEN [f EXCEPT !.index = f.index + 1, !.is_clean = st.is_clean]
                      ELSE [workers[v] EXCEPT !.is_clean = st.is_clean]]
                /\ stdout' = stdout \o written(w, st.out)
        /\ UNCHANGED << core_vars, git_vars, cli_vars >>

\* One turn of the loop over the cells, in either function.
worker_cell(w) ==
    LET f == workers[w]
        cell == f.document.cells[f.index + 1]
        st == check_cell([is_clean |-> f.is_clean, out |-> << >>], f.index, cell, f.config)
    IN  /\ f.pc = "cells"
        /\ f.index < Len(f.document.cells)
        /\ IF f.op = "clean"
           THEN /\ workers' = [workers EXCEPT ![w] =
                      [f EXCEPT !.index = f.index + 1,
                                !.document.cells[f.index + 1] = clean_cell(cell, f.config)]]
                /\ stdout' = stdout
           ELSE /\ workers' = [workers EXCEPT ![w] =
                      [f EXCEPT !.index = f.index + 1, !.is_clean = st.is_clean]]
                /\ stdout' = stdout \o written(w, st.out)
        /\ UNCHANGED << core_vars, git_vars, cli_vars >>

\* After the loop: the notebook metadata, and the return.
worker_notebook_metadata(w) ==
    LET f == workers[w]
        st == check_notebook_metadata([is_clean |-> f.is_clean, out |-> << >>],
                                      f.document.metadata, f.config)
    IN  /\ f.pc = "cells"
        /\ f.index = Len(f.document.cells)
        /\ IF f.op = "clean"
           THEN /\ workers' = [workers EXCEPT ![w] =
                      [f EXCEPT !.pc = "returned",
                                !.document.metadata =
                                    clean_notebook_metadata(f.document.metadata, f.config)]]
                /\ stdout' = stdout
           ELSE /\ workers' = [workers EXCEPT ![w] =
                      [f EXCEPT !.pc = "returned", !.is_clean = st.is_clean]]
                /\ stdout' = stdout \o written(w, st.out)
        /\ UNCHANGED << core_vars, git_vars, cli_vars >>

NextPar ==
    \/ \E w \in Workers : worker_call(w)
    \/ \E w \in Workers : worker_cell(w)
    \/ \E w \in Workers : worker_notebook_metadata(w)

SpecPar == InitPar /\ [][NextPar]_vars

\* ---------------------------------------------------------------- claims
valid_call(name) == call = name /\ ~raised

\* The cells of `before` that clean_notebook keeps: the indexes, and the
\* index of the j-th kept cell.
KeptIndexes ==
    { i \in 1..Len(before.cells) :
        config.remove_empty_cells => before.cells[i].source # "" }
KeptIndex(j) ==
    CHOOSE i \in KeptIndexes : Cardinality({ k \in KeptIndexes : k < i }) = j - 1

SameCellCount == Len(notebook.cells) = Cardinality(KeptIndexes)

IsSubMapping(f, g) ==
    /\ DOMAIN f \subseteq DOMAIN g
    /\ \A k \in DOMAIN f : f[k] = g[k]

SetOf(seq) == { seq[i] : i \in 1..Len(seq) }

\* C1: a notebook cleaned under a valid configuration passes check_notebook
\* under the same configuration.
C1_CheckAfterClean ==
    valid_call("clean") => check_result(notebook, config).is_clean

C1_Witness ==
    /\ valid_call("clean")
    /\ notebook # before
    /\ ~check_result(before, config).is_clean
    /\ config.preserve_cell_outputs
    /\ Len(notebook.cells) > 0

\* C2: cleaning a cleaned notebook again under the same valid configuration
\* changes nothing.
C2_CleanIdempotent ==
    valid_call("clean") => clean_result(notebook, config) = notebook

C2_Witness ==
    /\ valid_call("clean")
    /\ notebook # before
    /\ config.remove_empty_cells
    /\ Len(notebook.cells) < Len(before.cells)
    /\ Len(notebook.cells) > 0

\* C3: a call raises the configuration error exactly when both
\* remove_all_notebook_metadata and preserve_notebook_metadata are set, and
\* a call that raises has left the notebook as it was and printed nothing.
C3_MutualExclusion ==
    call # "none" =>
        /\ raised <=>
             (config.remove_all_notebook_metadata /\ config.preserve_notebook_metadata)
        /\ raised => notebook = before /\ printed = << >>

C3_Witness ==
    /\ call = "clean"
    /\ raised
    /\ config.remove_empty_cells
    /\ \E i \in 1..Len(notebook.cells) :
          /\ notebook.cells[i].source = ""
          /\ notebook.cells[i].metadata # EmptyDict
    /\ notebook.metadata # EmptyDict

\* C4: check_notebook leaves the notebook it is given exactly as it was.
C4_CheckDoesNotMutate ==
    call = "check" => notebook = before

C4_Witness ==
    /\ valid_call("check")
    /\ ~is_clean
    /\ clean_result(notebook, config) # notebook
    /\ Len(notebook.cells) > 1

\* C5: check_notebook returns True exactly when it printed no violation line.
C5_CleanIffNoViolation ==
    valid_call("check") => (is_clean <=> printed = << >>)

C5_Witness ==
    /\ valid_call("check")
    /\ ~is_clean
    /\ Len(printed) > 1

\* C6: under the default configuration check_notebook returns True exactly
\* when no cell has a metadata field, a truthy execution count or an output,
\* and metadata.language_info.version does not exist.
C6_DefaultTotality ==
    (valid_call("check") /\ config = DefaultConfiguration) =>
        (is_clean <=>
            /\ \A i \in 1..Len(before.cells) :
                 LET cell == before.cells[i]
                 IN  /\ DOMAIN cell.metadata = {}
                     /\ "execution_count" \in DOMAIN cell =>
                          cell.execution_count \in { None, Some(0) }
                     /\ "outputs" \in DOMAIN cell => Len(cell.outputs) = 0
            /\ ~ /\ "language_info" \in DOMAIN before.metadata
                 /\ "version" \in DOMAIN before.metadata.language_info)

C6_Witness ==
    /\ valid_call("check")
    /\ config = DefaultConfiguration
    /\ is_clean
    /\ \E i \in 1..Len(before.cells) :
          /\ before.cells[i].cell_type = "code"
          /\ before.cells[i].execution_count = Some(0)
    /\ "language_info" \in DOMAIN before.metadata

\* C7: clean_notebook gives every cell it keeps the metadata the three-way
\* preserve_cell_metadata policy prescribes, whatever the other options are:
\* None empties it, an empty collection leaves it alone, and a non-empty
\* collection keeps exactly the entries whose key it names.
C7_CellMetadataPolicy ==
    valid_call("clean") =>
        /\ SameCellCount
        /\ \A j \in 1..Len(notebook.cells) :
             LET old == before.cells[KeptIndex(j)].metadata
                 new == notebook.cells[j].metadata
                 pcm == config.preserve_cell_metadata
             IN  /\ pcm = None => DOMAIN new = {}
                 /\ (pcm # None /\ Len(pcm[1]) = 0) => new = old
                 /\ (pcm # None /\ Len(pcm[1]) > 0) =>
                      /\ DOMAIN new = DOMAIN old \cap SetOf(pcm[1])
                      /\ \A k \in DOMAIN new : new[k] = old[k]

C7_Witness ==
    /\ valid_call("clean")
    /\ config.preserve_cell_metadata = Some(<< "tags", "special" >>)
    /\ \E j \in 1..Len(notebook.cells) :
          /\ DOMAIN before.cells[KeptIndex(j)].metadata = { "tags" }
          /\ DOMAIN notebook.cells[j].metadata = { "tags" }

\* C8: with a non-empty preserve_cell_metadata B, the metadata of every kept
\* cell contains what cleaning the same cell with any non-empty A, all of
\* whose names are in B, would have kept.
C8_PreserveMonotone ==
    (valid_call("clean")
        /\ config.preserve_cell_metadata # None
        /\ Len(config.preserve_cell_metadata[1]) > 0) =>
        /\ SameCellCount
        /\ \A A \in PreserveCellMetadatas \ { None } :
             (Len(A[1]) > 0 /\ SetOf(A[1]) \subseteq SetOf(config.preserve_cell_metadata[1])) =>
                \A j \in 1..Len(notebook.cells) :
                    IsSubMapping(
                        clean_cell_metadata(before.cells[KeptIndex(j)].metadata, A),
                        notebook.cells[j].metadata)

C8_Witness ==
    /\ valid_call("clean")
    /\ config.preserve_cell_metadata = Some(<< "tags", "special" >>)
    /\ \E j \in 1..Len(notebook.cells) :
          /\ notebook.cells[j].metadata = FullCellMetadata
          /\ clean_cell_metadata(before.cells[KeptIndex(j)].metadata, Some(<< "tags" >>))
               = [tags |-> "a"]

C10_CellSequence ==
    valid_call("clean") =>
        /\ SameCellCount
        /\ \A j \in 1..Len(notebook.cells) :
             /\ notebook.cells[j].source = before.cells[KeptIndex(j)].source
             /\ notebook.cells[j].cell_type = before.cells[KeptIndex(j)].cell_type

C10_Witness ==
    /\ valid_call("clean")
    /\ config.remove_empty_cells
    /\ Len(before.cells) = 2
    /\ Len(notebook.cells) = 1
    /\ before.cells[1].source = ""
    /\ before.cells[1].cell_type # before.cells[2].cell_type

\* The lines check_notebook printed about the cell of 0-based index i.
LinesOf(i, text) ==
    { n \in 1..Len(printed) : printed[n] = Line(Some(i), text) }
MetadataLinesOf(i) ==
    { n \in 1..Len(printed) :
        printed[n].cell = Some(i) /\ printed[n].text[1] = "metadata" }
VersionLine == Line(None, << "metadata", "language_info.version" >>)
NotebookMetadataLine == Line(None, << "metadata" >>)
HasVersionPath(metadata) ==
    /\ "language_info" \in DOMAIN metadata
    /\ "version" \in DOMAIN metadata["language_info"]

\* C11: clean_notebook empties the notebook metadata when
\* remove_all_notebook_metadata is set; otherwise, when
\* preserve_notebook_metadata is not set, it deletes only the key
\* language_info.version (language_info stays, every other key and value is
\* unchanged); otherwise it leaves the notebook metadata unchanged.
C11_NotebookMetadata ==
    valid_call("clean") =>
        LET old == before.metadata
            new == notebook.metadata
        IN  IF config.remove_all_notebook_metadata
            THEN DOMAIN new = {}
            ELSE IF config.preserve_notebook_metadata
            THEN new = old
            ELSE /\ DOMAIN new = DOMAIN old
                 /\ \A k \in DOMAIN old \ { "language_info" } : new[k] = old[k]
                 /\ "language_info" \in DOMAIN old =>
                      /\ DOMAIN new["language_info"] =
                           DOMAIN old["language_info"] \ { "version" }
                      /\ \A k \in DOMAIN new["language_info"] :
                           new["language_info"][k] = old["language_info"][k]

C11_Witness ==
    /\ valid_call("clean")
    /\ ~config.remove_all_notebook_metadata
    /\ ~config.preserve_notebook_metadata
    /\ before.metadata = [language_info |-> [version |-> "3.9"]]
    /\ DOMAIN notebook.metadata = { "language_info" }
    /\ DOMAIN notebook.metadata["language_info"] = {}

\* C12 (as stated): neither check_notebook nor clean_notebook writes to an
\* output stream.
C12_NoOutputWritten ==
    call # "none" => printed = << >>

\* C12 (amended): clean_notebook writes nothing to standard output, a call
\* refused for its configuration writes nothing, and check_notebook writes
\* to standard output exactly when it returns False.
C12_OnlyCheckWrites ==
    call # "none" =>
        /\ call = "clean" => printed = << >>
        /\ raised => printed = << >>
        /\ valid_call("check") => (printed # << >> <=> ~is_clean)

C12_Witness ==
    /\ valid_call("clean")
    /\ notebook # before
    /\ printed = << >>
    /\ ~check_result(before, config).is_clean

\* C16 (as stated): the language_info.version line is printed exactly when
\* remove_all_notebook_metadata and preserve_notebook_metadata are both false
\* and the path exists; with remove_all_notebook_metadata set, the
\* "metadata" line is printed exactly when the notebook metadata is non-empty.
C16_DocumentLevelScan ==
    valid_call("check") =>
        /\ VersionLine \in SetOf(printed) <=>
             /\ ~config.remove_all_notebook_metadata
             /\ ~config.preserve_notebook_metadata
             /\ HasVersionPath(before.metadata)
        /\ config.remove_all_notebook_metadata =>
             (NotebookMetadataLine \in SetOf(printed) <=> DOMAIN before.metadata # {})

RankOf(text) ==
    CASE text[1] = "empty cell" -> 1
      [] text[1] = "metadata" -> 2
      [] text[1] = "execution count" -> 3
      [] OTHER -> 4

\* The cell has what the line reports.
Justified(line, cell) ==
    CASE line.text[1] = "empty cell" -> cell.source = ""
      [] line.text[1] = "metadata" ->
           /\ DOMAIN cell.metadata # {}
           /\ Len(line.text) = 2 => line.text[2] \in DOMAIN cell.metadata
      [] line.text[1] = "execution count" ->
           cell.cell_type = "code" /\ cell.execution_count \notin { None, Some(0) }
      [] OTHER -> cell.cell_type = "code" /\ Len(cell.outputs) > 0

\* C19: the lines check_notebook prints are in document order: the lines of
\* a cell precede those of every later cell, each carries the 0-based index
\* of the cell it is about, the lines of one cell come in the order empty
\* cell, metadata, execution count, outputs, and the lines about the
\* notebook come last.
C19_ReportOrder ==
    valid_call("check") =>
        /\ \A a \in 1..Len(printed) :
             printed[a].cell # None =>
                /\ printed[a].cell[1] \in 0..(Len(before.cells) - 1)
                /\ Justified(printed[a], before.cells[printed[a].cell[1] + 1])
        /\ \A a, b \in 1..Len(printed) :
             a < b =>
                /\ printed[a].cell = None => printed[b].cell = None
                /\ (printed[a].cell # None /\ printed[b].cell # None) =>
                     \/ printed[a].cell[1] < printed[b].cell[1]
                     \/ /\ printed[a].cell[1] = printed[b].cell[1]
                        /\ RankOf(printed[a].text) <= RankOf(printed[b].text)

C19_Witness ==
    /\ valid_call("check")
    /\ config.remove_empty_cells
    /\ config.remove_all_notebook_metadata
    /\ Len(before.cells) = 2
    /\ before.cells[1].source = "x = 1"
    /\ before.cells[1].metadata = EmptyDict
    /\ Len(printed) = 6
    /\ printed[1] = Line(Some(1), << "empty cell" >>)
    /\ printed[4] = Line(Some(1), << "outputs" >>)
    /\ printed[5].cell = None

\* C20 (as stated): when metadata.language_info.version does not exist,
\* check_notebook prints no language_info.version line, clean_notebook
\* leaves the notebook metadata unchanged, and a call raises only for an
\* invalid configuration.
C20_MissingPathOriginal ==
    /\ raised <=> (call # "none" /\ invalid_configuration(config))
    /\ (call # "none" /\ ~HasVersionPath(before.metadata)) =>
          /\ VersionLine \notin SetOf(printed)
          /\ call = "clean" => notebook.metadata = before.metadata

\* C20 (amended): as stated, except that clean_notebook leaves the notebook
\* metadata unchanged only when remove_all_notebook_metadata is false.
C20_MissingPath ==
    /\ raised <=> (call # "none" /\ invalid_configuration(config))
    /\ raised => exception = "ValueError"
    /\ (call # "none" /\ ~HasVersionPath(before.metadata)) =>
          /\ VersionLine \notin SetOf(printed)
          /\ (call = "clean" /\ ~config.remove_all_notebook_metadata) =>
                notebook.metadata = before.metadata

C20_Witness ==
    /\ valid_call("clean")
    /\ ~config.remove_all_notebook_metadata
    /\ ~config.preserve_notebook_metadata
    /\ before.metadata = [language_info |-> [name |-> "python"]]
    /\ notebook.metadata = before.metadata
    /\ notebook.cells # before.cells

\* The number of times the attributes file contains GIT_ATTRIBUTES_LINE.
Occurrences(file) ==
    IF file = None THEN 0
    ELSE Cardinality({ i \in 1..Len(file[1]) : line_contains(file[1][i]) })

added == git_call = "add_git_filter" /\ git_exception = "none"

C13_IndependentDocuments ==
    \A w \in DOMAIN workers :
        LET f == workers[w]
        IN  /\ f.pc = "raised" =>
                 invalid_configuration(f.config) /\ f.document = f.initial
            /\ f.pc = "returned" =>
                 /\ ~invalid_configuration(f.config)
                 /\ f.op = "clean" => f.document = clean_result(f.initial, f.config)
                 /\ f.op = "check" =>
                      /\ f.document = f.initial
                      /\ f.is_clean = check_result(f.initial, f.config).is_clean

C13_Witness ==
    /\ DOMAIN workers = Workers
    /\ workers[1].pc = "returned" /\ workers[1].op = "check" /\ ~workers[1].is_clean
    /\ workers[2].pc = "returned" /\ workers[2].op = "clean"
    /\ workers[2].document # workers[2].initial
    /\ workers[1].initial # workers[2].initial
    /\ \E i, k \in 1..Len(stdout) :
          /\ i < k
          /\ stdout[i].filename = 1
          /\ stdout[k].filename = 1
          /\ stdout[i].line.cell # None
          /\ stdout[k].line.cell = None

finished == cli_pc \in { "returned", "exited", "raised" }
expected_names == IF inputs = << >> THEN { "stdin" } ELSE expand_directories(inputs)
read_once == Len(reads) = Cardinality(expected_names) /\ SetOf(reads) = expected_names
checked_all ==
    /\ Len(verdicts) = Len(reads)
    /\ \A i \in 1..Len(verdicts) :
          verdicts[i] = check_result(file_system[reads[i]], config).is_clean
exit_mapping ==
    /\ exit_code = Some(1) <=> \E i \in 1..Len(verdicts) : ~verdicts[i]
    /\ exit_code = None <=> \A i \in 1..Len(verdicts) : verdicts[i]

\* C15 (as stated): when the check command ends, every input notebook (stdin
\* when no input is given) has been read and checked exactly once, and
\* sys.exit(1) was called exactly when check_notebook returned False for one
\* of them.
C15_ExitMappingOriginal ==
    finished => read_once /\ checked_all /\ exit_mapping

\* C15 (amended): the statement holds for a valid configuration; with
\* preserve_notebook_metadata and remove_all_notebook_metadata both given,
\* the command ends in the ValueError of the first check_notebook call, with
\* one notebook read, none checked, and sys.exit not called.
C15_ExitMapping ==
    finished =>
        IF invalid_configuration(config)
        THEN /\ cli_pc = "raised"
             /\ exception = "ValueError"
             /\ Len(reads) = 1
             /\ verdicts = << >>
             /\ exit_code = None
        ELSE /\ cli_pc # "raised"
             /\ read_once
             /\ checked_all
             /\ exit_mapping
             /\ cli_pc = "exited" <=> exit_code = Some(1)

C15_Witness ==
    /\ cli_pc = "exited"
    /\ exit_code = Some(1)
    /\ verdicts = << FALSE, TRUE, TRUE >>

\* C26 (as stated): a notebook for which check_notebook returns True is left
\* unchanged by clean_notebook under the same valid configuration, a code
\* cell with execution_count 0 included.
C26_CleanFixedPoint ==
    (valid_call("clean") /\ check_result(before, config).is_clean) =>
        notebook = before

\* C27: a notebook for which check_notebook returns False is changed by
\* clean_notebook under the same valid configuration.
C27_ViolationMeansChange ==
    (valid_call("clean") /\ ~check_result(before, config).is_clean) =>
        notebook # before

C27_Witness ==
    /\ valid_call("clean")
    /\ config.preserve_cell_outputs
    /\ config.preserve_cell_metadata = Some(<< >>)
    /\ config.preserve_notebook_metadata
    /\ ~config.remove_empty_cells
    /\ check_result(before, config).out = << Line(Some(0), << "execution count" >>) >>
    /\ Len(before.cells) = 1
    /\ before.cells[1].outputs = << >>
    /\ notebook # before

\* The configuration that preserves everything.
AllPreserving ==
    [ remove_empty_cells |-> FALSE,
      remove_all_notebook_metadata |-> FALSE,
      preserve_cell_metadata |-> Some(<< >>),
      preserve_cell_outputs |-> TRUE,
      preserve_execution_counts |-> TRUE,
      preserve_notebook_metadata |-> TRUE ]

\* C28: under the configuration that preserves everything, clean_notebook
\* leaves every notebook unchanged and check_notebook returns True for every
\* notebook, printing nothing.
C28_AllPreservingIdentity ==
    config = AllPreserving =>
        /\ call # "none" => ~raised
        /\ call = "clean" => notebook = before
        /\ call = "check" => is_clean /\ printed = << >>

C28_Witness ==
    /\ config = AllPreserving
    /\ valid_call("clean")
    /\ notebook = before
    /\ HasVersionPath(before.metadata)
    /\ Len(before.cells) = 2
    /\ before.cells[1].source = ""
    /\ before.cells[2].cell_type = "code"
    /\ before.cells[2].metadata = FullCellMetadata
    /\ before.cells[2].outputs = << ExecutedOutput >>

\* The flags of the filter command in the order the claim fixes, and
\* whether an option set asks for a flag.
FlagOrder ==
    << "--remove-empty-cells", "--preserve-cell-metadata", "--preserve-cell-outputs",
       "--preserve-execution-counts", "--preserve-notebook-metadata",
       "--remove-all-notebook-metadata" >>
Asked(o, k) ==
    CASE k = 1 -> o.remove_empty_cells
      [] k = 2 -> o.preserve_cell_metadata # None
      [] k = 3 -> o.preserve_cell_outputs
      [] k = 4 -> o.preserve_execution_counts
      [] k = 5 -> o.preserve_notebook_metadata
      [] k = 6 -> o.remove_all_notebook_metadata
PlacesOf(cmd, word) == { i \in 1..Len(cmd) : cmd[i] = word }
FieldNames(o) == IF o.preserve_cell_metadata = None THEN << >> ELSE o.preserve_cell_metadata[1]

\* The command is "nb-clean clean", then one flag per non-default option of
\* o and none for a default one, the flags in the fixed order, the field
\* names right after --preserve-cell-metadata.
IsFilterCommand(cmd, o) ==
    /\ Len(cmd) >= 2 /\ cmd[1] = "nb-clean" /\ cmd[2] = "clean"
    /\ \A k \in 1..6 :
          Cardinality(PlacesOf(cmd, FlagOrder[k])) = (IF Asked(o, k) THEN 1 ELSE 0)
    /\ \A k, m \in 1..6 :
          (k < m /\ Asked(o, k) /\ Asked(o, m)) =>
             \A i \in PlacesOf(cmd, FlagOrder[k]), j \in PlacesOf(cmd, FlagOrder[m]) : i < j
    /\ \A i \in PlacesOf(cmd, FlagOrder[2]) :
          /\ i + Len(FieldNames(o)) <= Len(cmd)
          /\ \A n \in 1..Len(FieldNames(o)) : cmd[i + n] = FieldNames(o)[n]
    /\ Len(cmd) = 2 + Cardinality({ k \in 1..6 : Asked(o, k) }) + Len(FieldNames(o))

ConfigSets == { i \in 1..Len(git_calls) : git_calls[i].args[1] = "config" }

\* C21: an add_git_filter call that gets past its guard runs git config
\* filter.nb-clean.clean exactly once, first, with the command "nb-clean
\* clean" followed by one flag per non-default option in the fixed order;
\* when that command succeeds the command is the stored filter.
C21_FilterCommand ==
    (git_call = "add_git_filter" /\ git_exception # "ValueError") =>
        /\ ConfigSets = { 1 }
        /\ git_calls[1].args = << "config", "filter.nb-clean.clean" >>
        /\ IsFilterCommand(git_calls[1].value, git_options[1])
        /\ Len(git_calls) = 2 => git_config = Some(git_calls[1].value)

C21_Witness ==
    /\ added
    /\ git_config = Some(<< "nb-clean", "clean", "--remove-empty-cells",
                            "--preserve-cell-metadata", "tags",
                            "--preserve-cell-outputs", "--preserve-execution-counts",
                            "--remove-all-notebook-metadata" >>)

\* C22: add_git_filter called with preserve_notebook_metadata and
\* remove_all_notebook_metadata both true raises ValueError having run no
\* git command and with the attributes file and the filter configuration as
\* they were; it raises ValueError for no other options.
C22_AddGitFilterGuard ==
    git_call = "add_git_filter" =>
        /\ git_exception = "ValueError" <=> invalid_configuration(git_options[1])
        /\ git_exception = "ValueError" =>
              /\ git_calls = << >>
              /\ attributes = git_before
              /\ git_config = git_config_before

C22_Witness ==
    /\ git_call = "add_git_filter"
    /\ git_exception = "ValueError"
    /\ git_config # None
    /\ attributes # None
    /\ Occurrences(attributes) = 1

\* The number of lines of the attributes file equal to GIT_ATTRIBUTES_LINE.
LineCount(file) ==
    IF file = None THEN 0
    ELSE Cardinality({ i \in 1..Len(file[1]) : file[1][i] = GIT_ATTRIBUTES_LINE })
RemoveSections == { i \in 1..Len(git_calls) : git_calls[i] = git_config_remove_section }

\* C23: when remove_git_filter returns, the attributes file, if there is
\* one, has no line "*.ipynb filter=nb-clean" and keeps its other lines, no
\* file was created, and git config --remove-section filter.nb-clean was
\* run exactly once, whether or not the line was there before.
C23_RemoveGitFilter ==
    (git_call = "remove_git_filter" /\ git_exception = "none") =>
        /\ LineCount(attributes) = 0
        /\ attributes = None <=> git_before = None
        /\ attributes # None =>
              \A i \in 1..Len(git_before[1]) :
                 git_before[1][i] \notin { GIT_ATTRIBUTES_LINE, "" } =>
                    \E j \in 1..Len(attributes[1]) : attributes[1][j] = git_before[1][i]
        /\ Cardinality(RemoveSections) = 1

C23_Witness ==
    /\ git_call = "remove_git_filter"
    /\ git_exception = "none"
    /\ git_before = Some(<< OtherAttributesLine, GIT_ATTRIBUTES_LINE, "" >>)
    /\ attributes = Some(<< OtherAttributesLine, "" >>)
    /\ git_config = None

\* C29: while every add_git_filter and remove_git_filter call so far has
\* returned, in a repository that started with no attributes file or with
\* one that does not contain "*.ipynb filter=nb-clean", the file contains
\* the line at most once, and contains it exactly when the last call was
\* add_git_filter.
C29_LineIffAdded ==
    (Occurrences(git_initial) = 0 /\ ~git_failed) =>
        /\ Occurrences(attributes) <= 1
        /\ LineCount(attributes) = Occurrences(attributes)
        /\ Occurrences(attributes) = 1 <=> git_call = "add_git_filter"

C29_Witness ==
    /\ git_initial = None
    /\ ~git_failed
    /\ git_call = "add_git_filter"
    /\ git_before = Some(<< "", "" >>)
    /\ attributes = Some(<< "", "", GIT_ATTRIBUTES_LINE, "" >>)

\* C30: add_git_filter runs git config before it touches the attributes
\* file, so a GitProcessError of add_git_filter leaves the file as it was
\* (and a failed git config leaves the configuration as it was);
\* remove_git_filter rewrites the file before it runs git config
\* --remove-section, so when that command fails the error is raised with
\* the line already removed from the file.
C30_OrderOfEffects ==
    /\ (git_call = "add_git_filter" /\ git_exception # "ValueError") =>
          git_calls[1].args = << "config", "filter.nb-clean.clean" >>
    /\ (git_call = "add_git_filter" /\ git_exception = "GitProcessError") =>
          /\ attributes = git_before
          /\ Len(git_calls) = 1 => git_config = git_config_before
    /\ (git_call = "remove_git_filter" /\ git_exception = "GitProcessError"
          /\ RemoveSections # {}) =>
          /\ LineCount(attributes) = 0
          /\ git_before # None =>
                attributes = Some(revised_contents(git_before[1]))
          /\ git_config = git_config_before

C30_Witness ==
    /\ git_call = "remove_git_filter"
    /\ git_exception = "GitProcessError"
    /\ RemoveSections # {}
    /\ git_config # None
    /\ LineCount(git_before) = 1
    /\ LineCount(attributes) = 0

InputSet == { inputs[i] : i \in 1..Len(inputs) }

\* C25 (as stated): expand_directories returns a list of non-directory paths
\* as it was given, the same paths in the same order, and replaces a
\* directory by the notebooks under it.
C25_ExpandDirectoriesOriginal ==
    (cli_pc \notin { "idle", "start" } /\ inputs # << >>) =>
        /\ Directory \notin InputSet => processed_inputs = inputs
        /\ SetOf(processed_inputs) =
             (InputSet \ { Directory })
             \cup (IF Directory \in InputSet THEN DirectoryNotebooks ELSE {})

\* C25 (amended): expand_directories returns each path it was given, and
\* each notebook under a directory it was given, exactly once and in no
\* particular order; a single non-directory path comes back as it was given.
C25_ExpandDirectories ==
    (cli_pc \notin { "idle", "start" } /\ inputs # << >>) =>
        /\ SetOf(processed_inputs) =
             (InputSet \ { Directory })
             \cup (IF Directory \in InputSet THEN DirectoryNotebooks ELSE {})
        /\ \A i, j \in 1..Len(processed_inputs) :
              i # j => processed_inputs[i] # processed_inputs[j]
        /\ (Len(inputs) = 1 /\ Directory \notin InputSet) => processed_inputs = inputs

C25_Witness ==
    /\ cli_pc = "loop"
    /\ inputs = << Directory, "notebooks/b.ipynb" >>
    /\ processed_inputs = << "notebooks/c.ipynb", "notebooks/b.ipynb" >>

WrittenTo == { writes[i].output : i \in 1..Len(writes) }

\* C24: the clean command writes each notebook it cleaned to the place it
\* read it from: the i-th write is of the i-th notebook read, passed through
\* clean_notebook with the options given, to the same path (to standard
\* output when it was read from stdin); no other file is touched, and when
\* the command returns there has been one write per input.
C24_CleanWritesBack ==
    /\ Len(writes) <= Len(reads)
    /\ \A i \in 1..Len(writes) :
          /\ writes[i].input = reads[i]
          /\ writes[i].read = original_files[reads[i]]
          /\ writes[i].written = clean_result(writes[i].read, config)
          /\ IF inputs = << >>
             THEN /\ writes[i].input = "stdin"
                  /\ writes[i].output = "stdout"
                  /\ printed = << writes[i].written >>
             ELSE /\ writes[i].output = writes[i].input
                  /\ file_system[writes[i].output] = writes[i].written
    /\ \A path \in DOMAIN file_system :
          path \notin WrittenTo => file_system[path] = original_files[path]
    /\ cli_pc = "returned" =>
          /\ Len(writes) = Cardinality(expected_names)
          /\ Cardinality(WrittenTo) = Len(writes)
          /\ SetOf(reads) = expected_names

C24_Witness ==
    /\ cli_pc = "returned"
    /\ config = DefaultConfiguration
    /\ inputs = << "a.ipynb", Directory >>
    /\ Len(writes) = 3
    /\ \A i \in 1..3 : writes[i].written # writes[i].read
    /\ original_files["stdin"] = file_system["stdin"]
    /\ file_system["a.ipynb"] # original_files["a.ipynb"]

====
